---- MODULE Spec2Model ----
(***************************************************************************)
(* Model of src/inject/dynamic-theme/index.ts: the orchestration core of   *)
(* the dynamic theme (sentinel styles, style manager registry, variable    *)
(* table, throttled rendering, loading/fallback gating, watcher lifecycle).*)
(***************************************************************************)
EXTENDS FiniteSets, Integers, Sequences, TLC

\* ------------------------------------------------------------------ bounds
\* cap on the loading tokens in use (managers alive plus tokens left in loadingStyles)
MaxManagers == 2
\* cap on visibility listeners left registered but no longer referenced
MaxStale == 1
\* cap on connected head observers
MaxObservers == 2
\* render requests within one coalescing window are counted up to this many
MaxRequests == 2
\* cap on updateVariables calls in the variable-table specification
MaxCalls == 2

\* ------------------------------------------------------- finite universes
\* stylesheet nodes of the document (identity = node reference)
Styles == {"s1", "s2"}
\* configurations passed to createOrUpdateDynamicTheme (filter, fixes, iframe)
Configs == {"c1"}
\* head children that do not belong to the engine
ForeignHeads == {<<>>, <<[cls |-> "other", id |-> 1]>>}

Null == [cls |-> "null", id |-> 0]

\* the sentinel classes in the order createStaticStyleOverrides creates them
SentinelClasses == <<"fallback", "user-agent", "text", "invert", "inline", "override">>
SentinelSet == {SentinelClasses[i] : i \in 1..Len(SentinelClasses)}

VARIABLES
    firefox,        \* isFirefox()
    hasHead,        \* document.head # null
    head,           \* children of document.head, in document order
    docStyles,      \* stylesheet nodes currently in the document
    readyState,     \* document.readyState
    hidden,         \* document.hidden
    filter,         \* filter / fixes / isIFrame (one configuration value)
    styleManagers,  \* Map node -> manager (a manager is named by its loadingStyleId)
    mgr,            \* the managers constructed and not destroyed: manager -> status
    loadingStyles,  \* Set of loading tokens
    fallbackText,   \* textContent of the fallback sentinel
    variables,      \* Map name -> value, in insertion order
    pending,        \* the throttle's slot: "none", "plain", "callback"
    visVar,         \* documentVisibilityListener # null
    visCur,         \* the closure documentVisibilityListener refers to is registered
    visStale,       \* registered visibilitychange closures no longer referred to
    headObservers,  \* connected head MutationObservers
    styleWatcher,   \* watchForStyleChanges is active
    inlineWatcher,  \* watchForInlineStyles is active
    readyListener,  \* onReadyStateChange is registered
    posWatchers,    \* stylePositionWatchers: alias -> watched node
    running,        \* per alias, the position watchers created and not stopped
    requests,       \* history: render requests since the slot was last empty
    dupCtor,        \* history: manageStyle was invoked for a node that had a manager
    calls,          \* history: updateVariables calls made on the table alone
    lastCall,       \* history: "none", or the last exported call: "establish", "stopped"
    owed,           \* history: the window holds a request that carried a callback
    last            \* history: what the last step did

vars == <<firefox, hasHead, head, docStyles, readyState, hidden, filter, styleManagers,
          mgr, loadingStyles, fallbackText, variables, pending, visVar, visCur,
          visStale, headObservers, styleWatcher, inlineWatcher, readyListener,
          posWatchers, running, requests, dupCtor, calls, lastCall, owed, last>>

\* --------------------------------------------------------------- sequences
RECURSIVE SeqOf(_)
\* all orderings of a finite set
SeqOf(S) == IF S = {} THEN {<<>>}
            ELSE UNION {{<<x>> \o t : t \in SeqOf(S \ {x})} : x \in S}

Range(f) == {f[x] : x \in DOMAIN f}

\* a local constant: F applied to the value v
Bind(v, F(_)) == F(v)

\* ---------------------------------------------------------------- the DOM
IndexOf(h, n) == IF \E i \in 1..Len(h) : h[i] = n
                 THEN CHOOSE i \in 1..Len(h) : h[i] = n /\ \A j \in 1..(i - 1) : h[j] # n
                 ELSE 0

FirstChild(h) == IF h = <<>> THEN Null ELSE h[1]

NextSibling(h, n) == Bind(IndexOf(h, n), LAMBDA i :
                         IF i = 0 \/ i = Len(h) THEN Null ELSE h[i + 1])

RemoveChild(h, n) == SelectSeq(h, LAMBDA x : x # n)

\* Node.insertBefore(n, ref): n is first removed from its place; ref = null appends;
\* inserting a node before itself leaves it before its next sibling
InsertBefore(h, n, ref) ==
    Bind(IF ref = n THEN NextSibling(h, n) ELSE ref, LAMBDA r :
    Bind(RemoveChild(h, n), LAMBDA h1 :
    Bind(IndexOf(h1, r), LAMBDA i :
        IF r = Null \/ i = 0 THEN Append(h1, n)
        ELSE SubSeq(h1, 1, i - 1) \o <<n>> \o SubSeq(h1, i, Len(h1)))))

\* querySelector('.' + cls): the first match in document order
QuerySelector(h, cls) ==
    IF \E i \in 1..Len(h) : h[i].cls = cls
    THEN h[CHOOSE i \in 1..Len(h) : h[i].cls = cls /\ \A j \in 1..(i - 1) : h[j].cls # cls]
    ELSE Null

\* document.createElement: a node distinct from every node of the document
CreateElement(h, cls) ==
    [cls |-> cls,
     id  |-> CHOOSE k \in 0..Len(h) :
                /\ \A i \in 1..Len(h) : h[i] # [cls |-> cls, id |-> k]
                /\ \A j \in 0..(k - 1) : \E i \in 1..Len(h) : h[i] = [cls |-> cls, id |-> j]]

\* elements carrying the shared marker class 'darkreader'
IsEngineNode(n) == n.cls \in SentinelSet
EngineNodes(h) == {i \in 1..Len(h) : IsEngineNode(h[i])}

\* a createOrUpdateStyle that never looks for the existing element
createOrUpdateStyleAlwaysNew(h, className) == CreateElement(h, className)

createOrUpdateStyle(h, className) ==
    Bind(QuerySelector(h, className), LAMBDA style :
        IF style = Null THEN CreateElement(h, className) ELSE style)

\* the head after createStaticStyleOverrides
StaticHead(h) ==
    Bind(createOrUpdateStyle(h, "fallback"), LAMBDA fallbackStyle :
    Bind(InsertBefore(h, fallbackStyle, FirstChild(h)), LAMBDA h1 :
    Bind(createOrUpdateStyle(h1, "user-agent"), LAMBDA userAgentStyle :
    Bind(InsertBefore(h1, userAgentStyle, NextSibling(h1, fallbackStyle)), LAMBDA h2 :
    Bind(createOrUpdateStyle(h2, "text"), LAMBDA textStyle :
    Bind(InsertBefore(h2, textStyle, NextSibling(h2, fallbackStyle)), LAMBDA h3 :
    Bind(createOrUpdateStyle(h3, "invert"), LAMBDA invertStyle :
    Bind(InsertBefore(h3, invertStyle, NextSibling(h3, textStyle)), LAMBDA h4 :
    Bind(createOrUpdateStyle(h4, "inline"), LAMBDA inlineStyle :
    Bind(InsertBefore(h4, inlineStyle, NextSibling(h4, invertStyle)), LAMBDA h5 :
    Bind(createOrUpdateStyle(h5, "override"), LAMBDA overrideStyle :
        InsertBefore(h5, overrideStyle, Null))))))))))))

\* ------------------------------------------------------ the variable table
Lit(x) == [kind |-> "lit", v |-> x]
Var(n) == [kind |-> "var", v |-> n]

MapHas(t, k) == \E i \in 1..Len(t) : t[i][1] = k
MapGet(t, k) == t[CHOOSE i \in 1..Len(t) : t[i][1] = k][2]
\* Map.set: an existing key keeps its place, a new key goes last
MapSet(t, k, v) == IF MapHas(t, k)
                   THEN [i \in 1..Len(t) |-> IF t[i][1] = k THEN <<k, v>> ELSE t[i]]
                   ELSE Append(t, <<k, v>>)
MapKeys(t) == {t[i][1] : i \in 1..Len(t)}

RECURSIVE replaceCSSVariables(_, _)
\* every reference token whose name is in the table is replaced by the table's current
\* value of that name; other tokens stay
replaceCSSVariables(value, t) ==
    IF value = <<>> THEN <<>>
    ELSE (IF Head(value).kind = "var" /\ MapHas(t, Head(value).v)
          THEN MapGet(t, Head(value).v) ELSE <<Head(value)>>)
         \o replaceCSSVariables(Tail(value), t)

RECURSIVE MergeVars(_, _)
\* newVars.forEach((value, key) => variables.set(key, value))
MergeVars(t, newVars) ==
    IF newVars = <<>> THEN t
    ELSE MergeVars(MapSet(t, Head(newVars)[1], Head(newVars)[2]), Tail(newVars))

RECURSIVE SubstitutePass(_, _)
\* variables.forEach((value, key) => variables.set(key, replaceCSSVariables(value, variables)))
\* entries are visited in insertion order and each sees the entries already rewritten
SubstitutePass(t, i) ==
    IF i > Len(t) THEN t
    ELSE SubstitutePass([t EXCEPT ![i] = <<t[i][1], replaceCSSVariables(t[i][2], t)>>], i + 1)

\* an updateVariables that merges and leaves the substitution pass out
updateVariablesMergeOnly(t, newVars) ==
    IF Len(newVars) = 0 THEN t
    ELSE MergeVars(t, newVars)

\* an updateVariables that repeats the substitution pass
updateVariablesTwoPasses(t, newVars) ==
    IF Len(newVars) = 0 THEN t
    ELSE SubstitutePass(SubstitutePass(MergeVars(t, newVars), 1), 1)

updateVariables(t, newVars) ==
    IF Len(newVars) = 0 THEN t
    ELSE SubstitutePass(MergeVars(t, newVars), 1)

RECURSIVE UpdateAll(_, _)
\* newVariables.forEach((variables) => updateVariables(variables))
UpdateAll(t, maps) ==
    IF maps = <<>> THEN t ELSE UpdateAll(updateVariables(t, Head(maps)), Tail(maps))

\* what manager.details() may return: null, no variables, or a variable map
Details == {"null", "empty", "A"}
DetailVars(d) == IF d = "A" THEN << <<"a", <<Lit("1px")>> >> >> ELSE <<>>

\* the sweeps treat null and a map without variables alike
SweepDetails == {"empty", "A"}

\* ------------------------------------------------------------ engine state
\* the record of one step: the operation, the managers rendered, the render-all passes
\* the throttle executed and the requests they served, the managers constructed, the
\* destroy() calls in order, whether the fallback was cleared, whether the handler raised,
\* the moved stylesheets of the batch, whether loadingEnd removed a token, the argument
\* of a call of updateVariables on the table alone and the table before that call,
\* the runs of createDynamicStyleOverrides
Step(name) == [op |-> name, rendered |-> {}, passes |-> 0, served |-> 0, created |-> {},
               destroyed |-> <<>>, cleared |-> FALSE, threw |-> FALSE, moved |-> {},
               tokenRemoved |-> FALSE, newVars |-> <<>>, before |-> <<>>, sweeps |-> 0]

State == [firefox |-> firefox, hasHead |-> hasHead, head |-> head, docStyles |-> docStyles,
          readyState |-> readyState, hidden |-> hidden, filter |-> filter,
          styleManagers |-> styleManagers, mgr |-> mgr,
          loadingStyles |-> loadingStyles, fallbackText |-> fallbackText,
          variables |-> variables, pending |-> pending, visVar |-> visVar,
          visCur |-> visCur, visStale |-> visStale, headObservers |-> headObservers,
          styleWatcher |-> styleWatcher, inlineWatcher |-> inlineWatcher,
          readyListener |-> readyListener, posWatchers |-> posWatchers,
          running |-> running, requests |-> requests, dupCtor |-> dupCtor, calls |-> calls,
          lastCall |-> lastCall, owed |-> owed, last |-> last]

Becomes(st) ==
    /\ firefox' = st.firefox /\ hasHead' = st.hasHead /\ head' = st.head
    /\ docStyles' = st.docStyles /\ readyState' = st.readyState /\ hidden' = st.hidden
    /\ filter' = st.filter /\ styleManagers' = st.styleManagers
    /\ mgr' = st.mgr /\ loadingStyles' = st.loadingStyles
    /\ fallbackText' = st.fallbackText /\ variables' = st.variables
    /\ pending' = st.pending /\ visVar' = st.visVar /\ visCur' = st.visCur
    /\ visStale' = st.visStale /\ headObservers' = st.headObservers
    /\ styleWatcher' = st.styleWatcher /\ inlineWatcher' = st.inlineWatcher
    /\ readyListener' = st.readyListener /\ posWatchers' = st.posWatchers
    /\ requests' = st.requests /\ dupCtor' = st.dupCtor /\ calls' = st.calls
    /\ running' = st.running /\ lastCall' = st.lastCall /\ owed' = st.owed
    /\ last' = st.last

Begin(name) == [State EXCEPT !.last = Step(name)]

\* --------------------------------------------------------- sentinel styles
\* getModifiedFallbackStyle(filter, {strict}): non-empty CSS text
FallbackStrict == "strict"
FallbackLoose == "non-strict"

NoWatchers == [a \in SentinelSet |-> Null]

\* a setupStylePositionWatcher that leaves the previous watcher of the alias running
setupStylePositionWatcherNoStop(st, alias) ==
    [st EXCEPT !.running[alias] = @ + 1,
               !.posWatchers[alias] = QuerySelector(st.head, alias)]

\* setupStylePositionWatcher(node, alias), node being the sentinel of that class
setupStylePositionWatcher(st, alias) ==
    [st EXCEPT !.running[alias] = (IF st.posWatchers[alias] # Null THEN @ - 1 ELSE @) + 1,
               !.posWatchers[alias] = QuerySelector(st.head, alias)]

RECURSIVE setupStylePositionWatchers(_, _)
\* the six setupStylePositionWatcher calls of createStaticStyleOverrides
setupStylePositionWatchers(st, aliases) ==
    IF aliases = <<>> THEN st
    ELSE setupStylePositionWatchers(setupStylePositionWatcher(st, Head(aliases)),
                                    Tail(aliases))

createStaticStyleOverrides(st) ==
    setupStylePositionWatchers(
        [st EXCEPT !.head = StaticHead(@), !.fallbackText = FallbackStrict],
        SentinelClasses)

cleanFallbackStyle(st) ==
    IF QuerySelector(st.head, "fallback") # Null
    THEN [st EXCEPT !.fallbackText = "", !.last.cleared = TRUE]
    ELSE st

isPageLoaded(st) == st.readyState \in {"complete", "interactive"}

\* if (loadingStyles.size === 0) cleanFallbackStyle()
CleanIfNothingLoads(st) == IF st.loadingStyles = {} THEN cleanFallbackStyle(st) ELSE st

\* ---------------------------------------------------------------- registry
\* a membership test that never finds the node
StyleManagersHasNever(reg, element) == FALSE

StyleManagersHas(reg, element) == element \in DOMAIN reg

shouldManageStyle(style) == style \in Styles

MapPut(f, k, v) == [x \in (DOMAIN f) \cup {k} |-> IF x = k THEN v ELSE f[x]]
MapDelete(f, k) == [x \in (DOMAIN f) \ {k} |-> f[x]]

\* ++loadingStylesCounter: an id that no manager alive, no registry entry and no token of
\* loadingStyles holds. Ids are only ever compared for equality, so the least such id
\* stands for the counter's next value.
NextLoadingStyleId(st) ==
    Bind((DOMAIN st.mgr) \cup Range(st.styleManagers) \cup st.loadingStyles, LAMBDA used :
        CHOOSE k \in 1..(Cardinality(used) + 1) :
            k \notin used /\ \A j \in 1..(k - 1) : j \in used)

createManager(st, element) ==
    IF StyleManagersHas(st.styleManagers, element) THEN st
    ELSE Bind(NextLoadingStyleId(st), LAMBDA loadingStyleId :
            [st EXCEPT
               !.dupCtor = @ \/ element \in DOMAIN st.styleManagers,
               !.mgr = MapPut(@, loadingStyleId, "created"),
               !.styleManagers = MapPut(@, element, loadingStyleId),
               !.last.created = @ \cup {loadingStyleId}])

RECURSIVE createManagers(_, _)
createManagers(st, els) ==
    IF els = <<>> THEN st ELSE createManagers(createManager(st, Head(els)), Tail(els))

\* a removeManager that destroys the manager and leaves it in the registry
removeManagerKeepsEntry(st, element) ==
    IF element \in DOMAIN st.styleManagers
    THEN [st EXCEPT !.mgr = MapDelete(@, st.styleManagers[element]),
                    !.last.destroyed = Append(@, st.styleManagers[element])]
    ELSE st

removeManager(st, element) ==
    IF element \in DOMAIN st.styleManagers
    THEN [st EXCEPT !.mgr = MapDelete(@, st.styleManagers[element]),
                    !.styleManagers = MapDelete(@, element),
                    !.last.destroyed = Append(@, st.styleManagers[element])]
    ELSE st

RECURSIVE removeManagers(_, _)
removeManagers(st, els) ==
    IF els = <<>> THEN st ELSE removeManagers(removeManager(st, Head(els)), Tail(els))

\* manager.render(filter, variables) on each manager of ms
Render(st, ms) == [st EXCEPT !.last.rendered = @ \cup ms]

\* manager.watch() on each manager of ms
Watch(st, ms) ==
    [st EXCEPT !.mgr = [m \in DOMAIN @ |-> IF m \in ms THEN "watching" ELSE @[m]]]

\* ---------------------------------------------------------------- throttle
\* a call fills the single slot, replacing the arguments of a call already waiting
throttledRenderAllStyles(st, withCallback) ==
    [st EXCEPT !.pending = IF withCallback THEN "callback" ELSE "plain",
               !.owed = @ \/ withCallback,
               !.requests = IF @ < MaxRequests THEN @ + 1 ELSE @]

cancelRendering(st) == [st EXCEPT !.pending = "none", !.requests = 0, !.owed = FALSE]

\* a throttled function that runs the callback and renders no manager
RenderAllStylesNoRender(st, withCallback) ==
    Bind([st EXCEPT !.last.passes = @ + 1], LAMBDA st1 :
        IF withCallback THEN CleanIfNothingLoads(st1) ELSE st1)

\* the throttled function: render every manager, then the callback of the call
RenderAllStyles(st, withCallback) ==
    Bind([Render(st, Range(st.styleManagers)) EXCEPT !.last.passes = @ + 1], LAMBDA st1 :
        IF withCallback THEN CleanIfNothingLoads(st1) ELSE st1)

\* ------------------------------------------------------------- the sweeps
RECURSIVE NewVariables(_)
\* the variable maps of the new managers whose details carry variables, in order
NewVariables(els) ==
    IF els = <<>> THEN <<>>
    ELSE (IF Len(DetailVars(Head(els).d)) > 0 THEN <<DetailVars(Head(els).d)>> ELSE <<>>)
         \o NewVariables(Tail(els))

Nodes(els) == [i \in 1..Len(els) |-> els[i].style]

\* the ways a set of stylesheet nodes can be listed, each with what details() returns
Plans(S) == {[i \in 1..Len(q) |-> [style |-> q[i], d |-> det[q[i]]]] :
                q \in SeqOf(S), det \in [S -> SweepDetails]}

\* the stylesheet nodes the full sweep creates managers for
SweepCandidates(st) ==
    {style \in st.docStyles :
        ~StyleManagersHas(st.styleManagers, style) /\ shouldManageStyle(style)}

\* plan: the stylesheet nodes in document order, each with what details() returns
createDynamicStyleOverrides(st, plan) ==
    Bind(cancelRendering([st EXCEPT !.last.sweeps = @ + 1]), LAMBDA st1 :
    Bind(SelectSeq(plan, LAMBDA e : e.style \in SweepCandidates(st1)), LAMBDA els :
    Bind(createManagers(st1, Nodes(els)), LAMBDA st2 :
    Bind({st2.styleManagers[els[i].style] : i \in 1..Len(els)}, LAMBDA newManagers :
    Bind(NewVariables(els), LAMBDA newVariables :
        Watch(IF Len(newVariables) = 0
              THEN CleanIfNothingLoads(Render(st2, Range(st2.styleManagers)))
              ELSE throttledRenderAllStyles(
                       [st2 EXCEPT !.variables = UpdateAll(@, newVariables)], TRUE),
              newManagers))))))

\* a removal that does not set the moved stylesheets aside
RemoveGoneAndMoved(st, batch) ==
    removeManagers(st, CHOOSE q \in SeqOf(batch.removed) : TRUE)

\* removed.filter((style) => !movedStyles.has(style)).forEach(removeManager)
RemoveGone(st, batch) ==
    removeManagers(st, CHOOSE q \in SeqOf(batch.removed \ (batch.removed \cap batch.created)) :
                           TRUE)

BatchCandidates(st, batch) ==
    {style \in batch.created \cup batch.updated :
        ~StyleManagersHas(st.styleManagers, style)}

\* the callback watchForUpdates hands to watchForStyleChanges
OnStyleChanges(st, batch, plan) ==
    Bind(RemoveGone(st, batch), LAMBDA st1 :
    Bind(SelectSeq(plan, LAMBDA e : e.style \in BatchCandidates(st1, batch)), LAMBDA els :
    Bind(createManagers(st1, Nodes(els)), LAMBDA st2 :
    Bind({st2.styleManagers[els[i].style] : i \in 1..Len(els)}, LAMBDA newManagers :
    Bind(NewVariables(els), LAMBDA newVariables :
        Watch(IF Len(newVariables) = 0
              THEN Render(st2, newManagers)
              ELSE throttledRenderAllStyles(
                       [st2 EXCEPT !.variables = UpdateAll(@, newVariables)], FALSE),
              newManagers))))))

watchForUpdates(st) ==
    [st EXCEPT !.styleWatcher = TRUE, !.inlineWatcher = TRUE, !.readyListener = TRUE]

stopStylePositionWatchers(st) ==
    [st EXCEPT !.running = [a \in SentinelSet |->
                               IF st.posWatchers[a] # Null THEN @[a] - 1 ELSE @[a]],
               !.posWatchers = NoWatchers]

\* styleManagers.forEach((manager) => manager.pause())
PauseAll(st) ==
    [st EXCEPT !.mgr = [m \in DOMAIN @ |-> IF m \in Range(st.styleManagers)
                                          THEN "paused" ELSE @[m]]]

stopWatchingForUpdates(st) ==
    [stopStylePositionWatchers(PauseAll(st)) EXCEPT
        !.styleWatcher = FALSE, !.inlineWatcher = FALSE, !.readyListener = FALSE]

\* --------------------------------------------------------------- visibility
watchForDocumentVisibility(st) ==
    IF st.visVar
    THEN [st EXCEPT !.visCur = FALSE,
                    !.visStale = IF st.visCur THEN @ + 1 ELSE @]
    ELSE [st EXCEPT !.visVar = TRUE, !.visCur = TRUE]

stopWatchingForDocumentVisibility(st) ==
    [st EXCEPT !.visVar = FALSE, !.visCur = FALSE]

\* the callback createThemeAndWatchForUpdates hands to watchForDocumentVisibility
SweepAndWatch(st, plan) == watchForUpdates(createDynamicStyleOverrides(st, plan))

\* the rest of createThemeAndWatchForUpdates after createStaticStyleOverrides
HiddenOrVisible(st, plan) ==
    IF st.hidden THEN watchForDocumentVisibility(st) ELSE SweepAndWatch(st, plan)

createThemeAndWatchForUpdates(st, plan) ==
    HiddenOrVisible(createStaticStyleOverrides(st), plan)

\* one registered visibilitychange closure runs
VisibilityListener(st, plan) ==
    IF st.hidden THEN st
    ELSE SweepAndWatch(stopWatchingForDocumentVisibility(st), plan)

RECURSIVE DispatchVisibility(_, _, _)
\* the closures no longer referred to run first (they were registered first), then the
\* closure documentVisibilityListener refers to, if it is still registered by then
DispatchVisibility(st, stale, plan) ==
    IF stale > 0 \/ st.visCur
    THEN Bind(VisibilityListener(st, plan), LAMBDA st1 :
             IF stale > 0 THEN DispatchVisibility(st1, stale - 1, plan) ELSE st1)
    ELSE st

RECURSIVE DispatchHead(_, _)
\* every connected head observer sees the head: disconnects and builds the theme
DispatchHead(st, plan) ==
    IF st.headObservers = 0 THEN st
    ELSE DispatchHead(
             createThemeAndWatchForUpdates([st EXCEPT !.headObservers = @ - 1], plan),
             plan)

\* ---------------------------------------------------------------- lifecycle
\* the branch of createOrUpdateDynamicTheme taken when document.head is null
WithoutHead(st) ==
    IF ~st.firefox
    \* createOrUpdateStyle reads document.head.querySelector: TypeError
    THEN [st EXCEPT !.last.threw = TRUE]
    ELSE [st EXCEPT !.headObservers = @ + 1]

\* the rest of createOrUpdateDynamicTheme after the configuration is stored
HeadOrObserver(st, plan) ==
    IF st.hasHead THEN createThemeAndWatchForUpdates(st, plan) ELSE WithoutHead(st)

createOrUpdateDynamicTheme(st, cfg, plan) ==
    HeadOrObserver([st EXCEPT !.filter = cfg, !.lastCall = "establish"], plan)

cleanDynamicThemeCache(st) ==
    stopWatchingForUpdates(cancelRendering(stopWatchingForDocumentVisibility(
        [st EXCEPT !.lastCall = "stopped"])))

RECURSIVE RemoveFirst(_, _)
\* removeNode(document.head.querySelector('.' + cls)) for each class of classes
RemoveFirst(h, classes) ==
    IF classes = <<>> THEN h
    ELSE RemoveFirst(RemoveChild(h, QuerySelector(h, Head(classes))), Tail(classes))

\* Array.from(document.querySelectorAll('.darkreader')).forEach(removeNode)
RemoveEngineNodes(st) ==
    Bind(SelectSeq(st.head, LAMBDA n : ~IsEngineNode(n)), LAMBDA h :
        [st EXCEPT !.head = h,
                   !.fallbackText = IF QuerySelector(h, "fallback") = Null THEN "" ELSE @])

\* Array.from(styleManagers.keys()).forEach((el) => removeManager(el))
RemoveAllManagers(st) ==
    removeManagers(st, CHOOSE q \in SeqOf(DOMAIN st.styleManagers) : TRUE)

\* the removeNode calls on the six sentinels
RemoveSentinels(st) ==
    [st EXCEPT !.head = IF st.hasHead THEN RemoveFirst(@, SentinelClasses)
                        ELSE RemoveFirst(@, <<"fallback">>)]

removeDynamicTheme(st) ==
    RemoveEngineNodes(RemoveAllManagers(RemoveSentinels(cleanDynamicThemeCache(st))))

\* ------------------------------------------------------- manager callbacks
\* a loadingStart that adds the token and leaves an empty fallback empty
AddLoadingStyleOnly(st, loadingStyleId) ==
    [st EXCEPT !.loadingStyles = @ \cup {loadingStyleId}]

\* the body of loadingStart when the page is not loaded yet
AddLoadingStyle(st, loadingStyleId) ==
    IF QuerySelector(st.head, "fallback") = Null
    \* fallbackStyle is null and its textContent is read: TypeError
    THEN [st EXCEPT !.loadingStyles = @ \cup {loadingStyleId}, !.last.threw = TRUE]
    ELSE [st EXCEPT !.loadingStyles = @ \cup {loadingStyleId},
                    !.fallbackText = IF @ = "" THEN FallbackLoose ELSE @]

loadingStart(st, loadingStyleId) ==
    IF ~isPageLoaded(st) THEN AddLoadingStyle(st, loadingStyleId) ELSE st

\* a loadingEnd that never clears the fallback
CleanIfLoadedNever(st) == st

\* if (loadingStyles.size === 0 && isPageLoaded()) cleanFallbackStyle()
CleanIfLoaded(st) ==
    IF st.loadingStyles = {} /\ isPageLoaded(st) THEN cleanFallbackStyle(st) ELSE st

loadingEnd(st, loadingStyleId) ==
    CleanIfLoaded([st EXCEPT !.loadingStyles = @ \ {loadingStyleId},
                             !.last.tokenRemoved = loadingStyleId \in st.loadingStyles])

update(st, manager, d) ==
    IF d = "null" THEN st
    ELSE IF Len(DetailVars(d)) = 0 THEN Render(st, {manager})
    ELSE throttledRenderAllStyles(
             [st EXCEPT !.variables = updateVariables(@, DetailVars(d))], FALSE)

onReadyStateChange(st) ==
    IF ~isPageLoaded(st) THEN st
    ELSE CleanIfNothingLoads([st EXCEPT !.readyListener = FALSE])

\* ----------------------------------------------------------------- actions
NoMap == [x \in {} |-> 0]

Within(st) == /\ st.calls <= MaxCalls
              /\ \A m \in (DOMAIN st.mgr) \cup Range(st.styleManagers) : m <= MaxManagers
              /\ st.visStale <= MaxStale
              /\ st.headObservers <= MaxObservers

\* the step to st is taken if st is within the bounds
Commit(st) == Within(st) /\ Becomes(st)

\* the engine before the first call of createOrUpdateDynamicTheme
Fresh ==
    /\ filter = "null"
    /\ styleManagers = NoMap
    /\ mgr = NoMap
    /\ loadingStyles = {}
    /\ fallbackText = ""
    /\ variables = <<>>
    /\ pending = "none"
    /\ visVar = FALSE
    /\ visCur = FALSE
    /\ visStale = 0
    /\ headObservers = 0
    /\ styleWatcher = FALSE
    /\ inlineWatcher = FALSE
    /\ readyListener = FALSE
    /\ posWatchers = NoWatchers
    /\ running = [a \in SentinelSet |-> 0]
    /\ lastCall = "none"
    /\ owed = FALSE
    /\ requests = 0
    /\ dupCtor = FALSE
    /\ calls = 0
    /\ last = Step("init")

\* a visible document whose head exists when the engine starts
Init ==
    /\ hasHead = TRUE
    \* isFirefox() is read only while the document has no head
    /\ firefox = FALSE
    /\ head = <<[cls |-> "other", id |-> 1]>>
    /\ docStyles \in SUBSET Styles
    /\ readyState \in {"loading", "interactive", "complete"}
    /\ hidden = FALSE
    /\ Fresh

\* a document that may be hidden and may have no head yet; a document without a head is
\* still being parsed and holds no stylesheet
LifecycleInit ==
    /\ hasHead \in BOOLEAN
    /\ firefox \in BOOLEAN
    /\ head \in (IF hasHead THEN ForeignHeads ELSE {<<>>})
    /\ docStyles \in (IF hasHead THEN SUBSET Styles ELSE {{}})
    /\ readyState \in (IF hasHead THEN {"loading", "complete"} ELSE {"loading"})
    /\ hidden \in BOOLEAN
    /\ Fresh

\* establishTheme(config, fixes, isIframe)
EstablishTheme ==
    \E cfg \in Configs, plan \in Plans(SweepCandidates(State)) :
        Commit(createOrUpdateDynamicTheme(Begin("establish"), cfg, plan))

\* removeTheme()
RemoveTheme == \E op \in {"remove"} : Commit(removeDynamicTheme(Begin(op)))

\* cleanCache()
CleanCache == \E op \in {"clean"} : Commit(cleanDynamicThemeCache(Begin(op)))

EmptyBatch == [created |-> {}, updated |-> {}, removed |-> {}]

\* the batches a document mutation can report when the stylesheets ds are in the document
Batches(ds) ==
    {b \in [created : SUBSET Styles, updated : SUBSET Styles, removed : SUBSET Styles] :
        /\ b # EmptyBatch
        /\ b.removed \subseteq ds
        /\ (b.created \ b.removed) \cap ds = {}
        /\ b.updated \subseteq ds \ b.removed}

\* the document after the mutation that batch b reports
Mutated(st, b) ==
    [st EXCEPT !.docStyles = (@ \cup b.created) \ (b.removed \ b.created)]

\* the page adds, changes, removes or moves stylesheets; the structural watcher, when it
\* is connected, reports the batch before any other event is handled
StyleMutation ==
    /\ hasHead
    /\ \E b \in Batches(docStyles) :
        IF styleWatcher
        THEN \E plan \in Plans(BatchCandidates(RemoveGone(State, b), b)) :
                Commit(OnStyleChanges(
                           [Mutated(Begin("batch"), b) EXCEPT
                               !.last.moved = b.removed \cap b.created],
                           b, plan))
        ELSE Commit(Mutated(Begin("mutation"), b))

\* a manager of the registry reports that its stylesheet started loading
ManagerLoadingStart ==
    \E m \in Range(styleManagers) : Commit(loadingStart(Begin("loadingStart"), m))

\* a manager of the registry reports that its stylesheet finished loading
ManagerLoadingEnd ==
    \E m \in Range(styleManagers) : Commit(loadingEnd(Begin("loadingEnd"), m))

\* a watching manager reports a change of its stylesheet
ManagerUpdate ==
    \E m \in Range(styleManagers), d \in Details :
        /\ m \in DOMAIN mgr
        /\ mgr[m] = "watching"
        /\ Commit(update(Begin("update"), m, d))

\* the coalescing window elapses with a call waiting in the slot
Timer ==
    /\ pending # "none"
    /\ Commit([RenderAllStyles(Begin("timer"), pending = "callback")
                  EXCEPT !.pending = "none", !.requests = 0, !.owed = FALSE,
                         !.last.served = requests])

\* the listeners of readystatechange
DispatchReadyState(st) == IF st.readyListener THEN onReadyStateChange(st) ELSE st

\* document.readyState advances and readystatechange is dispatched
ReadyStateChange ==
    /\ hasHead
    /\ readyState # "complete"
    /\ Commit(DispatchReadyState(
                  [Begin("ready") EXCEPT
                      !.readyState = IF @ = "loading" THEN "interactive" ELSE "complete"]))

\* document.hidden changes and visibilitychange is dispatched
VisibilityChange ==
    \E plan \in Plans(IF hidden /\ (visStale > 0 \/ visCur)
                       THEN SweepCandidates(State) ELSE {}) :
        Commit(DispatchVisibility([Begin("visibility") EXCEPT !.hidden = ~@],
                                  visStale, plan))

\* the parser inserts the head and the head observers are notified
HeadAppears ==
    /\ ~hasHead
    /\ \E kids \in ForeignHeads :
        Commit(DispatchHead([Begin("head") EXCEPT !.hasHead = TRUE, !.head = kids], <<>>))

Next == \/ EstablishTheme
        \/ RemoveTheme
        \/ CleanCache
        \/ StyleMutation
        \/ ManagerLoadingStart
        \/ ManagerLoadingEnd
        \/ ManagerUpdate
        \/ Timer
        \/ ReadyStateChange

Spec == Init /\ [][Next]_vars

LifecycleNext == \/ EstablishTheme
                 \/ RemoveTheme
                 \/ CleanCache
                 \/ Timer
                 \/ VisibilityChange
                 \/ HeadAppears

LifecycleSpec == LifecycleInit /\ [][LifecycleNext]_vars

\* ------------------------------------------------- the variable table alone
Names == {"a", "b", "c"}

\* the values a stylesheet declares: a literal, one reference, a reference among text
Values == {<<Lit("1px")>>, <<Var("a")>>, <<Lit("calc("), Var("b")>>}

\* a Map of variables: distinct names in some insertion order, each with a value
VarMaps(ns) ==
    UNION {UNION {{[i \in 1..Len(q) |-> <<q[i], vs[i]>>] : vs \in [1..Len(q) -> Values]}
                 : q \in SeqOf(S)} : S \in SUBSET ns}

\* a chain three deep, the referrers declared first
Chain == << <<"c", <<Lit("calc("), Var("b")>> >>, <<"b", <<Var("a")>> >>,
            <<"a", <<Lit("1px")>> >> >>

\* the maps the calls pass: no variable, one, two, or the chain
NewVarMaps == {m \in VarMaps(Names) : MapKeys(m) # Names} \cup {Chain}

CallUpdateVariables(st, newVars) ==
    [st EXCEPT !.variables = updateVariables(@, newVars),
               !.last.newVars = newVars,
               !.last.before = st.variables,
               !.calls = @ + 1]

\* updateVariables(newVars), as update() and the sweeps call it
UpdateVariablesCall ==
    \E newVars \in NewVarMaps :
        Commit(CallUpdateVariables(Begin("updateVariables"), newVars))

\* the table of a freshly loaded engine, which is empty
VarsInit ==
    /\ hasHead = TRUE
    /\ firefox = FALSE
    /\ head = <<[cls |-> "other", id |-> 1]>>
    /\ docStyles = {}
    /\ readyState = "complete"
    /\ hidden = FALSE
    /\ Fresh

VarsNext == UpdateVariablesCall

VarsSpec == VarsInit /\ [][VarsNext]_vars

\* ------------------------------------------------------------ properties
Loaded(rs) == rs \in {"complete", "interactive"}

\* the classes of the engine's elements under the head, in document order
SentinelOrder(h) ==
    Bind(SelectSeq(h, IsEngineNode), LAMBDA q : [i \in 1..Len(q) |-> q[i].cls])

CountOf(h, cls) == Cardinality({i \in 1..Len(h) : h[i].cls = cls})

Times(q, m) == Cardinality({i \in 1..Len(q) : q[i] = m})

\* createStaticStyleOverrides ran and the position watchers were not stopped since
Established == posWatchers["fallback"] # Null

\* C1: after establishTheme on a document with a head, the sentinels are children of
\* the head in the order fallback, user-agent, text, invert, inline, override.
C1_OrderAsSpecified ==
    (last.op = "establish" /\ hasHead) => SentinelOrder(head) = SentinelClasses

\* C2: an establishTheme call on a document with a head leaves exactly one element per
\* sentinel class, keeps every manager the registry held and constructs managers only
\* for the stylesheets of the document the registry did not hold: a repeated call adds
\* neither sentinels nor managers.
C2_EstablishIdempotent ==
    [][(last'.op = "establish" /\ hasHead) =>
          /\ \A c \in SentinelSet : CountOf(head', c) = 1
          /\ \A s \in DOMAIN styleManagers :
                s \in DOMAIN styleManagers' /\ styleManagers'[s] = styleManagers[s]
          /\ DOMAIN styleManagers' = (DOMAIN styleManagers) \cup docStyles
          /\ Cardinality(DOMAIN mgr') = Cardinality(DOMAIN styleManagers')
          /\ (docStyles \subseteq DOMAIN styleManagers => last'.created = {})]_vars

\* a call that found both stylesheets managed and all six sentinels in place
C2_Witness ==
    /\ last.op = "establish"
    /\ last.created = {}
    /\ Cardinality(DOMAIN styleManagers) = 2
    /\ docStyles = Styles
    /\ Len(SentinelOrder(head)) = 6

\* C3: the managers alive are exactly those of the registry, no two stylesheet nodes
\* share a manager, and manageStyle was never invoked for a node that had a manager.
C3_OneManagerPerNode ==
    /\ ~dupCtor
    /\ DOMAIN mgr = Range(styleManagers)
    /\ \A s, t \in DOMAIN styleManagers : styleManagers[s] = styleManagers[t] => s = t

\* a batch that reported managed stylesheets only and constructed nothing
C3_Witness ==
    /\ last.op = "batch"
    /\ last.created = {}
    /\ last.destroyed = <<>>
    /\ last.moved = {}
    /\ docStyles = Styles
    /\ DOMAIN styleManagers = Styles

\* C4: after removeTheme the head holds no engine element, the registry is empty and
\* destroy was called exactly once on every manager the registry held.
C4_RemoveLeavesNothing ==
    [][last'.op = "remove" =>
          /\ EngineNodes(head') = {}
          /\ DOMAIN styleManagers' = {}
          /\ DOMAIN mgr' = {}
          /\ Len(last'.destroyed) = Cardinality(DOMAIN styleManagers)
          /\ \A s \in DOMAIN styleManagers : Times(last'.destroyed, styleManagers[s]) = 1]_vars

\* removeTheme destroyed two managers
C4_Witness ==
    /\ last.op = "remove"
    /\ Len(last.destroyed) = 2
    /\ EngineNodes(head) = {}

\* C5: the fallback sentinel is cleared only when the loading set is empty and the
\* document is interactive or complete.
C5_ClearedOnlyWhenLoaded ==
    last.cleared => (loadingStyles = {} /\ Loaded(readyState))

\* C6: while the theme is established, a token in the loading set and a document still
\* loading mean the fallback sentinel exists and is not empty.
C6_FallbackWhileLoading ==
    (Established /\ loadingStyles # {} /\ ~Loaded(readyState)) =>
        (QuerySelector(head, "fallback") # Null /\ fallbackText # "")

\* loadingStart filled the fallback the sweep had cleared
C6_Witness ==
    /\ Established
    /\ loadingStyles # {}
    /\ ~Loaded(readyState)
    /\ fallbackText = FallbackLoose

\* C7: while the structural watcher is connected, the step that completes "loading set
\* empty and document loaded" (loadingEnd removing the last token of a loaded document,
\* or the document becoming loaded with no token left) leaves the fallback empty.
C7_ClearedOnceLoaded ==
    [][(/\ styleWatcher /\ styleWatcher'
        /\ loadingStyles' = {} /\ Loaded(readyState')
        /\ \/ last'.op = "loadingEnd" /\ last'.tokenRemoved
           \/ last'.op = "ready" /\ ~Loaded(readyState))
       => fallbackText' = ""]_vars

\* the document was loaded first and loadingEnd then removed the last token
C7_Witness ==
    /\ last.op = "loadingEnd"
    /\ last.tokenRemoved
    /\ last.cleared
    /\ styleWatcher
    /\ fallbackText = ""

\* C8: a batch leaves the manager of a moved stylesheet in place: destroy is not called
\* on it and no manager is constructed for its node.
C8_MoveKeepsManager ==
    [][last'.op = "batch" =>
          \A s \in last'.moved \cap DOMAIN styleManagers :
              /\ s \in DOMAIN styleManagers'
              /\ styleManagers'[s] = styleManagers[s]
              /\ styleManagers[s] \notin last'.created
              /\ Times(last'.destroyed, styleManagers[s]) = 0]_vars

\* a batch moved a managed stylesheet
C8_Witness ==
    /\ last.op = "batch"
    /\ last.moved # {}
    /\ last.moved \subseteq DOMAIN styleManagers
    /\ last.created = {}
    /\ last.destroyed = <<>>

\* C9: the requests of one coalescing window are served by one render-all pass, which
\* runs when the window elapses and renders every manager of the registry; no pass runs
\* at any other time, and cancelRendering (cleanCache, removeTheme) empties the slot.
C9_OnePassPerWindow ==
    /\ [](pending # "none" <=> requests >= 1)
    /\ [][/\ last'.op = "timer" =>
               /\ requests >= 1
               /\ last'.served = requests
               /\ last'.passes = 1
               /\ last'.rendered = Range(styleManagers')
               /\ pending' = "none"
          /\ last'.op # "timer" => last'.passes = 0
          /\ last'.op \in {"clean", "remove"} =>
               /\ pending' = "none" /\ requests' = 0 /\ last'.rendered = {}]_vars

\* one pass served several requests and rendered two managers
C9_Witness ==
    /\ last.op = "timer"
    /\ last.served = MaxRequests
    /\ last.passes = 1
    /\ Cardinality(last.rendered) = 2

RefFree(value) == \A j \in 1..Len(value) : value[j].kind = "lit"

\* every reference of the value names a variable the table holds with a reference-free value
Resolvable(value, t) ==
    \A j \in 1..Len(value) :
        value[j].kind = "var" =>
            (MapHas(t, value[j].v) /\ RefFree(MapGet(t, value[j].v)))

RECURSIVE Substituted(_, _)
\* the value with every reference replaced by the table's value of the name
Substituted(value, t) ==
    IF value = <<>> THEN <<>>
    ELSE (IF Head(value).kind = "var" THEN MapGet(t, Head(value).v) ELSE <<Head(value)>>)
         \o Substituted(Tail(value), t)

ResolvedWhereResolvable(merged, after) ==
    /\ MapKeys(after) = MapKeys(merged)
    /\ \A i \in 1..Len(merged) :
          Resolvable(merged[i][2], merged) =>
              /\ MapGet(after, merged[i][1]) = Substituted(merged[i][2], merged)
              /\ RefFree(MapGet(after, merged[i][1]))

\* C10: one updateVariables call leaves every entry whose references all name variables
\* that the table (with the new entries merged) holds with reference-free values fully
\* substituted, whatever the insertion order of the table and of the new entries; a call
\* with an empty map leaves the table as it was.
C10_OneCallResolves ==
    [][last'.op = "updateVariables" =>
          /\ last'.newVars = <<>> => variables' = variables
          /\ last'.newVars # <<>> =>
                ResolvedWhereResolvable(MergeVars(variables, last'.newVars), variables')]_vars

\* the call merged b = var(a) before a = 1px and b holds 1px after it
C10_Witness ==
    /\ last.op = "updateVariables"
    /\ Len(last.newVars) = 2
    /\ last.newVars[1] = <<"b", <<Var("a")>> >>
    /\ last.newVars[2] = <<"a", <<Lit("1px")>> >>
    /\ MapGet(variables, "b") = <<Lit("1px")>>
    /\ calls = 1

References(value, name) == \E j \in 1..Len(value) : value[j] = Var(name)

\* an entry declared before an entry it refers to, whose value holds a reference itself,
\* still holds a reference after the call
ReferrerFirstStaysUnresolved(merged, after) ==
    \A i, j \in 1..Len(merged) :
        (i < j /\ References(merged[i][2], merged[j][1]) /\ ~RefFree(merged[j][2]))
            => ~RefFree(MapGet(after, merged[i][1]))

\* the entries the call does not declare that were left with references to entries that
\* are reference-free by now
LeftBehind(t, newVars) ==
    {i \in 1..Len(t) : /\ ~MapHas(newVars, t[i][1])
                       /\ ~RefFree(t[i][2])
                       /\ Resolvable(t[i][2], MergeVars(t, newVars))}

\* C11: a call makes one substitution pass and no more: an entry that enters the table
\* before the entry it refers to, which refers further (c = var(b), b = var(a), a = 1px),
\* still holds a reference after the call; the next call with a non-empty map leaves
\* such an entry reference-free.
C11_OnePassPerCall ==
    [][(last'.op = "updateVariables" /\ last'.newVars # <<>>) =>
          /\ ReferrerFirstStaysUnresolved(MergeVars(variables, last'.newVars), variables')
          /\ \A i \in LeftBehind(variables, last'.newVars) :
                RefFree(MapGet(variables', variables[i][1]))]_vars

\* the chain entered an empty table, c was left as calc(var(a)), and the second call,
\* which declares neither c nor a reference, left c as calc(1px)
C11_Witness ==
    /\ last.op = "updateVariables"
    /\ calls = 2
    /\ last.newVars # <<>>
    /\ last.before = << <<"c", <<Lit("calc("), Var("a")>> >>, <<"b", <<Lit("1px")>> >>,
                        <<"a", <<Lit("1px")>> >> >>
    /\ ~MapHas(last.newVars, "c")
    /\ MapGet(variables, "c") = <<Lit("calc("), Lit("1px")>>

\* what cleanCache is to leave alone: the engine's elements, the registry, the managers
CleanCacheKeeps ==
    /\ EngineNodes(head') = EngineNodes(head)
    /\ styleManagers' = styleManagers
    /\ DOMAIN mgr' = DOMAIN mgr
    /\ last'.destroyed = <<>>

\* what cleanCache is to stop, the visibility listener aside
CleanCacheStops ==
    /\ \A m \in Range(styleManagers') : mgr'[m] = "paused"
    /\ posWatchers' = NoWatchers
    /\ \A a \in SentinelSet : running'[a] = 0
    /\ ~styleWatcher' /\ ~inlineWatcher' /\ ~readyListener'
    /\ pending' = "none"

\* C12: cleanCache leaves the sentinels and the registry as they were, pauses every
\* manager, stops the position watchers, the structural and the inline watcher, the
\* readiness listener and the visibility listener, and cancels the pending render.
C12_CleanCacheFrame ==
    [][last'.op = "clean" =>
          /\ CleanCacheKeeps
          /\ CleanCacheStops
          /\ ~visVar' /\ ~visCur' /\ visStale' = 0]_vars

\* C13: establishTheme on a document without a head returns without raising, on Firefox
\* and elsewhere, and leaves a head observer connected; when the head appears the
\* observers disconnect and the six sentinels are under the head.
C13_HeadlessEstablish ==
    [][/\ (last'.op = "establish" /\ ~hasHead) =>
             (~last'.threw /\ headObservers' = headObservers + 1)
       /\ (last'.op = "head" /\ lastCall = "establish") =>
             (headObservers' = 0 /\ \A c \in SentinelSet : CountOf(head', c) = 1)]_vars

\* C14: after cleanCache or removeTheme the variable table holds no entry.
C14_TableResetOnClean ==
    last.op \in {"clean", "remove"} => variables = <<>>

\* C15: when the document becomes visible with a visibility listener registered, the
\* deferred sweep runs once and the structural watcher is armed; after it no visibility
\* listener is registered, so that no later event runs the sweep again; this also after
\* several establishTheme calls on the hidden document.
C15_VisibilityOneShot ==
    [][last'.op = "visibility" =>
          /\ (hidden /\ (visCur \/ visStale > 0)) => (last'.sweeps = 1 /\ styleWatcher')
          /\ last'.sweeps > 0 => (~visVar' /\ ~visCur' /\ visStale' = 0)]_vars

\* C16: from removeTheme or cleanCache until the next establishTheme no event (the head
\* appearing, a visibility change, a structural batch, a readiness change, the throttle
\* timer) adds an engine element, constructs a manager, renders a manager or runs a sweep.
C16_StoppedIsQuiet ==
    [][(lastCall = "stopped" /\ lastCall' = "stopped" /\ last'.op \notin {"clean", "remove"}) =>
          /\ EngineNodes(head') \subseteq EngineNodes(head)
          /\ last'.created = {}
          /\ last'.rendered = {}
          /\ last'.sweeps = 0]_vars

\* C17: per alias at most one position watcher is running, and it is the one the map
\* holds for the alias (a watcher replaced was stopped); right after cleanCache or
\* removeTheme no position watcher is running.
C17_OneWatcherPerAlias ==
    /\ \A a \in SentinelSet : running[a] = (IF posWatchers[a] # Null THEN 1 ELSE 0)
    /\ last.op \in {"clean", "remove"} => \A a \in SentinelSet : running[a] = 0

\* establishTheme ran on an engine whose watchers were installed and whose managers were
\* never paused: each alias had a watcher and has one now
C17_Witness ==
    /\ last.op = "establish"
    /\ last.created = {}
    /\ DOMAIN styleManagers # {}
    /\ \A m \in Range(styleManagers) : mgr[m] = "watching"
    /\ \A a \in SentinelSet : running[a] = 1 /\ posWatchers[a] # Null

\* C18: when the window holds the request of a full sweep, which carries the check that
\* clears the fallback, the pass runs that check whatever other requests arrived in the
\* window: with the loading set empty the fallback is empty after the pass.
C18_SweepCallbackRuns ==
    [][(last'.op = "timer" /\ owed /\ loadingStyles = {}) =>
          (last'.cleared /\ fallbackText' = "")]_vars

\* C19: every token of the loading set belongs to a manager of the registry: the token
\* of a manager destroyed by removeManager or removeTheme is not in the set.
C19_TokensOfRegistryOnly ==
    loadingStyles \subseteq Range(styleManagers)

\* C20: after establishTheme on a visible document with a head every manager of the
\* registry is watching, those paused by an earlier cleanCache included.
C20_EstablishResumesWatching ==
    (last.op = "establish" /\ hasHead /\ ~hidden) =>
        \A m \in Range(styleManagers) : mgr[m] = "watching"

====
